---------------------------- MODULE Spec2Model ----------------------------
(***************************************************************************)
(* Model of the song recogniser of src/SearchMultipleSongCloud.py and      *)
(* src/main.py:                                                            *)
(*   - fingerprint_song: the landmark pairing loop (specification SpecFp), *)
(*   - recognize_from_supabase: chunked index lookup and offset voting     *)
(*     (specification SpecMatch),                                          *)
(*   - recognize_multiple_songs_supabase: the sliding-window scan and the  *)
(*     merge pass (specification Spec).                                    *)
(* All times are integers in milliseconds (0.1 s = 100, 30 s = 30000), so  *)
(* that round(x, 2) is a rounding to a multiple of 10.                     *)
(***************************************************************************)
EXTENDS Integers, Sequences, FiniteSets, TLC

VARIABLES
  \* --- recognize_multiple_songs_supabase (Spec) ---
  pc,                 \* "call" | "loop" | "done" | "raised"
  segment_duration,   \* argument
  min_confidence,     \* argument
  overlap,            \* argument
  total_duration,     \* librosa.get_duration of the file
  current_pos,
  detected_songs,     \* list of song_info dicts
  last_detected_song, \* index into detected_songs of the aliased dict, 0 = None
  result,             \* what recognize_from_supabase returned for the last window
  window,             \* the audio of the last analysed window
  nWindows,           \* number of calls of recognize_from_supabase
  merged_detections,  \* the returned list
  exampleIdx,         \* length of the prefix of Example the window results have followed, -1 = left it
  \* --- fingerprint_song (SpecFp) ---
  fpc,                \* "call" | "done"
  clip,               \* the audio handed to fingerprint_song
  pairs,              \* the (anchor index, target index) pairs the loop accepted
  fingerprints,       \* the returned list of (h, anchor_time)
  \* --- recognize_from_supabase (SpecMatch) ---
  mpc,                \* "call" | "fetch" | "returned" | "raised"
  query_fingerprints, \* what fingerprint_song returned for the query
  index,              \* the rows (hash, song, offSetTime) of the fingerprint table joined with the songs
  chunk_start,        \* first position (from 1) of the next chunk of query_hashes
  db_matches,
  match_result,       \* the outcome of the call
  lookup_failed,      \* conn.cursor() or a chunk's cursor.execute raised
  \* --- the /recognize endpoint (SpecApi) ---
  apc,                \* "request" | "scanning" | "responded"
  mode,               \* the form field mode
  response            \* the HTTP status and the formatted results

scanVars == <<pc, segment_duration, min_confidence, overlap, total_duration,
              current_pos, detected_songs, last_detected_song, result, window,
              nWindows, merged_detections, exampleIdx>>
fpVars == <<fpc, clip, pairs, fingerprints>>
matchVars == <<mpc, query_fingerprints, index, chunk_start, db_matches,
               match_result, lookup_failed>>
apiVars == <<apc, mode, response>>
vars == <<scanVars, fpVars, matchVars, apiVars>>

-----------------------------------------------------------------------------
(* Bounds of the model *)

\* cap on the number of windows one scan analyses (the loop of an invalid
\* configuration never ends by itself)
MaxWindows == 4
\* longest landmark list handed to the pairing loop
MaxPeaks == 3
\* longest query fingerprint list handed to the matcher
MaxQuery == 3
\* largest number of rows in the index
MaxRows == 3
\* hashes per lookup: 900 in the source (line 112), scaled down so that a
\* query of MaxQuery hashes takes more than one chunk
CHUNK_SIZE == 2

-----------------------------------------------------------------------------
(* Values *)

Max(a, b) == IF a >= b THEN a ELSE b

\* The three outcomes of a call of recognize_from_supabase: return None,
\* return (song_name, score, offset), or an exception leaving the function.
NoMatch == [kind |-> "none", song |-> "", score |-> 0, offset |-> 0]
Raised == [kind |-> "raise", song |-> "", score |-> 0, offset |-> 0]
Match(s, n, o) == [kind |-> "match", song |-> s, score |-> n, offset |-> o]

-----------------------------------------------------------------------------
(* fingerprint_song *)

TARGET_ZONE_START_TIME == 100
TARGET_ZONE_TIME_DURATION == 800
TARGET_ZONE_FREQ_WIDTH == 200

Peak(t, f) == [time |-> t, freq |-> f]

\* sorted(peaks_list, key=lambda p: p[0]): a stable sort by time.
RECURSIVE InsertByTime(_, _)
InsertByTime(s, p) ==
  IF s = <<>> THEN <<p>>
  ELSE IF s[Len(s)].time <= p.time THEN Append(s, p)
  ELSE Append(InsertByTime(SubSeq(s, 1, Len(s) - 1), p), s[Len(s)])

RECURSIVE SortByTime(_)
SortByTime(s) ==
  IF s = <<>> THEN <<>>
  ELSE InsertByTime(SortByTime(SubSeq(s, 1, Len(s) - 1)), s[Len(s)])

\* The test of line 83 on one target.
InTargetZone(target, t_min, t_max, f_min, f_max) ==
  /\ t_min <= target.time /\ target.time <= t_max
  /\ f_min <= target.freq /\ target.freq <= f_max

\* The inner loop over j of one anchor i, from index j on: the accepted targets.
RECURSIVE InnerLoop(_, _, _)
InnerLoop(sorted_peaks, i, j) ==
  LET anchor == sorted_peaks[i]
      t_min == anchor.time + TARGET_ZONE_START_TIME
      t_max == t_min + TARGET_ZONE_TIME_DURATION
      f_min == anchor.freq - TARGET_ZONE_FREQ_WIDTH
      f_max == anchor.freq + TARGET_ZONE_FREQ_WIDTH
  IN IF j > Len(sorted_peaks) THEN <<>>
     ELSE IF sorted_peaks[j].time > t_max THEN <<>>            \* break
     ELSE IF InTargetZone(sorted_peaks[j], t_min, t_max, f_min, f_max)
          THEN <<(<<i, j>>)>> \o InnerLoop(sorted_peaks, i, j + 1)
          ELSE InnerLoop(sorted_peaks, i, j + 1)

\* The outer loop over the anchors, from anchor i on.
RECURSIVE PairingLoop(_, _)
PairingLoop(sorted_peaks, i) ==
  IF i > Len(sorted_peaks) THEN <<>>
  ELSE InnerLoop(sorted_peaks, i, i + 1) \o PairingLoop(sorted_peaks, i + 1)

\* hash((anchor_freq, target_freq, time_delta)): a deterministic mixing of the
\* triple into a fixed-width integer (a stand-in for CPython's tuple hash).
HashTriple(anchor_freq, target_freq, time_delta) ==
  ((anchor_freq * 31 + target_freq) * 31 + time_delta) % 1000003

\* (h, anchor_time) for each accepted pair.
FingerprintsOf(sorted_peaks, ps) ==
  [k \in 1..Len(ps) |->
     LET a == sorted_peaks[ps[k][1]]
         t == sorted_peaks[ps[k][2]]
     IN [h |-> HashTriple(a.freq, t.freq, t.time - a.time), t |-> a.time]]

\* `if not peaks[0].any()`: no peak, or every peak in frequency bin 0.
NoUsablePeaks(peaks) == \A k \in 1..Len(peaks) : peaks[k].freq = 0

\* The outcome of fingerprint_song on a clip: exc = an exception leaves the
\* function, value = the returned list. A clip that cannot be decoded makes
\* librosa.load raise inside the try block.
\* (pairs = the (anchor, target) index pairs behind the returned fingerprints.)
fingerprint_song_propagates(c) ==
  IF ~c.decodable THEN [exc |-> TRUE, value |-> <<>>, pairs |-> <<>>]
  ELSE IF NoUsablePeaks(c.peaks) THEN [exc |-> FALSE, value |-> <<>>, pairs |-> <<>>]
  ELSE LET sp == SortByTime(c.peaks)
           ps == PairingLoop(sp, 1)
       IN [exc |-> FALSE, value |-> FingerprintsOf(sp, ps), pairs |-> ps]

fingerprint_song(c) ==
  IF ~c.decodable
  THEN [exc |-> FALSE, value |-> <<>>, pairs |-> <<>>]     \* except Exception: return []
  ELSE IF NoUsablePeaks(c.peaks) THEN [exc |-> FALSE, value |-> <<>>, pairs |-> <<>>]
  ELSE LET sp == SortByTime(c.peaks)
           ps == PairingLoop(sp, 1)
       IN [exc |-> FALSE, value |-> FingerprintsOf(sp, ps), pairs |-> ps]

-----------------------------------------------------------------------------
(* recognize_from_supabase *)

Row(h, s, t) == [hash |-> h, song |-> s, offSetTime |-> t]

\* query_hashes = [h for h, _ in query_fingerprints]
QueryHashes(q) == [k \in 1..Len(q) |-> q[k].h]

\* query_hash_to_time = {str(h): t for h, t in query_fingerprints}: a later
\* fingerprint with the same hash replaces the earlier one.
QueryHashToTime(q) ==
  [h \in {q[k].h : k \in 1..Len(q)} |->
     q[CHOOSE k \in 1..Len(q) :
         q[k].h = h /\ \A m \in 1..Len(q) : q[m].h = h => m <= k].t]

\* query_hashes[i:i + CHUNK_SIZE], with start counted from 1.
Chunk(hashes, start) ==
  SubSeq(hashes, start, IF start + CHUNK_SIZE - 1 <= Len(hashes)
                        THEN start + CHUNK_SIZE - 1 ELSE Len(hashes))

\* The rows `WHERE f."intHash" IN (chunk)` selects: each row at most once,
\* however often its hash occurs in the chunk.
Select(rows, chunk) == {r \in rows : \E k \in 1..Len(chunk) : chunk[k] = r.hash}

\* The query has no ORDER BY: fetchall() may list the selected rows in any order.
Orderings(S) ==
  {f \in [1..Cardinality(S) -> S] : \A a, b \in 1..Cardinality(S) : f[a] = f[b] => a = b}

\* round(x, 2) of x seconds, here x in milliseconds: the nearest multiple of
\* 10, an exact tie going to the even hundredth.
Round2(x) ==
  LET r == x % 10
      lower == x - r
  IN IF r < 5 THEN lower
     ELSE IF r > 5 THEN lower + 10
     ELSE IF (lower \div 10) % 2 = 0 THEN lower ELSE lower + 10

\* key = (song_name, offset) of one fetched row.
KeyOf(row, hash_to_time) ==
  <<row.song, Round2(row.offSetTime - hash_to_time[row.hash])>>

\* matches[key] += 1 on the defaultdict, kept in insertion order as a list of
\* (key, votes).
AddVote(matches, key) ==
  IF \E k \in 1..Len(matches) : matches[k].key = key
  THEN [k \in 1..Len(matches) |->
          IF matches[k].key = key
          THEN [matches[k] EXCEPT !.votes = @ + 1] ELSE matches[k]]
  ELSE Append(matches, [key |-> key, votes |-> 1])

\* The loop of lines 135-140 over the fetched rows rows[i..].
RECURSIVE CountVotes(_, _, _, _)
CountVotes(matches, rows, i, hash_to_time) ==
  IF i > Len(rows) THEN matches
  ELSE IF rows[i].hash \in DOMAIN hash_to_time
       THEN CountVotes(AddVote(matches, KeyOf(rows[i], hash_to_time)),
                       rows, i + 1, hash_to_time)
       ELSE CountVotes(matches, rows, i + 1, hash_to_time)

\* max(...) with a later item of equal score replacing the best one.
RECURSIVE BestMatchLastWins(_, _, _)
BestMatchLastWins(matches, i, best) ==
  IF i > Len(matches) THEN best
  ELSE BestMatchLastWins(matches, i + 1,
                         IF matches[i].votes >= matches[best].votes THEN i ELSE best)

\* max(matches.items(), key=lambda item: item[1]): the index of the first item
\* with the largest score, scanning from item i with the best so far.
RECURSIVE BestMatch(_, _, _)
BestMatch(matches, i, best) ==
  IF i > Len(matches) THEN best
  ELSE BestMatch(matches, i + 1,
                 IF matches[i].votes > matches[best].votes THEN i ELSE best)

\* Lines 130-152: the result computed from the accumulated db_matches.
ScoreMatches(rows, q) ==
  IF rows = <<>> THEN NoMatch
  ELSE LET matches == CountVotes(<<>>, rows, 1, QueryHashToTime(q))
       IN IF matches = <<>> THEN NoMatch
          ELSE LET b == matches[BestMatch(matches, 1, 1)]
               IN Match(b.key[1], b.votes, b.key[2])

\* `if not query_fingerprints: return None`
OnEmptyQuery == NoMatch

\* conn.cursor() raises on an unusable connection: the except clause runs
\* (its conn.rollback() raises as well), then `finally: cursor.close()` finds
\* cursor unbound, so an exception leaves the function.
OnCursorError == Raised

\* cursor.execute raises on a connection that was lost: the except clause's
\* conn.rollback() raises in turn, and that exception leaves the function.
OnRollbackError == Raised

\* The except clause with the votes of the chunks fetched so far returned.
OnDatabaseErrorKeepsPartial(partial) == partial

\* `except psycopg2.Error: conn.rollback(); return None`, where partial is
\* what the rows fetched so far would score.
OnDatabaseError(partial) == NoMatch

\* One call as its caller sees it, on the audio c with the database in state
\* db ("ok", "cursor_error": conn.cursor() raises, "execute_error": a chunk's
\* cursor.execute raises psycopg2.Error, "rollback_error": so does the
\* rollback after it), where scored is what the lookup and the vote give when
\* the database answers.
recognize_from_supabase(c, db, scored) ==
  LET fp == fingerprint_song(c)
  IN IF fp.exc THEN Raised                       \* line 99 is outside the try
     ELSE IF fp.value = <<>> THEN OnEmptyQuery
     ELSE IF db = "cursor_error" THEN OnCursorError
     ELSE IF db = "execute_error" THEN OnDatabaseError(scored)
     ELSE IF db = "rollback_error" THEN OnRollbackError
     ELSE scored

-----------------------------------------------------------------------------
(* recognize_multiple_songs_supabase *)

SongInfo(s, st, et, c) ==
  [song |-> s, start_time |-> st, end_time |-> et, confidence |-> c]

\* ScanStep with the confidence of an extended interval overwritten instead of
\* raised to the maximum.
ScanStepOverwritesConfidence(detected, last, r, pos, seg, minc) ==
  IF r.kind = "match" /\ r.score >= minc
  THEN IF last # 0 /\ detected[last].song = r.song
       THEN [detected_songs |->
               [detected EXCEPT ![last].end_time = pos + seg,
                                ![last].confidence = r.score],
             last_detected_song |-> last]
       ELSE [detected_songs |->
               Append(detected, SongInfo(r.song, pos + r.offset, pos + seg, r.score)),
             last_detected_song |-> Len(detected) + 1]
  ELSE [detected_songs |-> detected, last_detected_song |-> last]

\* ScanStep with a weak or missing result closing the open interval.
ScanStepGapCloses(detected, last, r, pos, seg, minc) ==
  IF r.kind = "match" /\ r.score >= minc
  THEN IF last # 0 /\ detected[last].song = r.song
       THEN [detected_songs |->
               [detected EXCEPT ![last].end_time = pos + seg,
                                ![last].confidence = Max(@, r.score)],
             last_detected_song |-> last]
       ELSE [detected_songs |->
               Append(detected, SongInfo(r.song, pos + r.offset, pos + seg, r.score)),
             last_detected_song |-> Len(detected) + 1]
  ELSE [detected_songs |-> detected, last_detected_song |-> 0]

\* The body of the while loop for one window result r: the new
\* detected_songs and last_detected_song.
ScanStep(detected, last, r, pos, seg, minc) ==
  IF r.kind = "match" /\ r.score >= minc
  THEN LET song_start_in_file == pos + r.offset
       IN IF last # 0 /\ detected[last].song = r.song
          THEN [detected_songs |->
                  [detected EXCEPT ![last].end_time = pos + seg,
                                   ![last].confidence = Max(@, r.score)],
                last_detected_song |-> last]
          ELSE [detected_songs |->
                  Append(detected, SongInfo(r.song, song_start_in_file, pos + seg, r.score)),
                last_detected_song |-> Len(detected) + 1]
  ELSE [detected_songs |-> detected, last_detected_song |-> last]

\* The merge pass from entry i of detected on. merged[Len(merged)] is the same
\* dict as detected[alias], so extending it changes both lists.
RECURSIVE MergeFrom(_, _, _, _)
MergeFrom(merged, detected, i, alias) ==
  IF i > Len(detected) THEN [merged_detections |-> merged, detected_songs |-> detected]
  ELSE LET current_song == detected[i]
           prev_song == merged[Len(merged)]
       IN IF current_song.song = prev_song.song
          THEN LET upd == [prev_song EXCEPT
                             !.end_time = current_song.end_time,
                             !.confidence = Max(prev_song.confidence, current_song.confidence)]
               IN MergeFrom([merged EXCEPT ![Len(merged)] = upd],
                            [detected EXCEPT ![alias] = upd], i + 1, alias)
          ELSE MergeFrom(Append(merged, current_song), detected, i + 1, i)

MergeDetections(detected) ==
  IF detected = <<>> THEN [merged_detections |-> <<>>, detected_songs |-> detected]
  ELSE MergeFrom(<<detected[1]>>, detected, 2, 1)

\* The inputs of the scan.
\* (segment_duration, overlap, min_confidence): the defaults of the endpoint,
\* a higher threshold, and two configurations that do not advance the scan.
Configs ==
  { <<30000, 5000, 5>>, <<30000, 5000, 10>>, <<30000, 30000, 5>>, <<0, 5000, 5>> }
TotalDurations == {0, 60000, 100000}
DbStates == {"ok", "cursor_error", "execute_error", "rollback_error"}

UndecodableClip == [decodable |-> FALSE, peaks |-> <<>>]
SilentClip == [decodable |-> TRUE, peaks |-> <<>>]
TonalClip == [decodable |-> TRUE, peaks |-> <<Peak(0, 1000), Peak(500, 1100)>>]
ScanClips == {UndecodableClip, SilentClip, TonalClip}

\* The worked example of the interval merge.
Example ==
  <<Match("SongA", 10, 0), Match("SongA", 12, 0),
    Match("SongB", 9, 0), Match("SongB", 11, 0)>>

\* What the lookup and the vote can give for a window: no match, the results
\* of the example, and matches one minute into a song.
ScoredResults ==
  {NoMatch} \cup {Example[k] : k \in 1..Len(Example)}
     \cup {Match("SongA", 10, 60000), Match("SongB", 11, 60000)}

ScanParked ==
  /\ pc = "off" /\ segment_duration = 0 /\ min_confidence = 0 /\ overlap = 0
  /\ total_duration = 0 /\ current_pos = 0 /\ detected_songs = <<>>
  /\ last_detected_song = 0 /\ result = NoMatch
  /\ window = SilentClip
  /\ nWindows = 0 /\ merged_detections = <<>> /\ exampleIdx = 0

FpParked ==
  /\ fpc = "off" /\ clip = SilentClip /\ pairs = <<>> /\ fingerprints = <<>>

ScanInit ==
  /\ pc = "call"
  /\ \E cfg \in Configs :
       /\ segment_duration = cfg[1]
       /\ overlap = cfg[2]
       /\ min_confidence = cfg[3]
  /\ total_duration = 0 /\ current_pos = 0 /\ detected_songs = <<>>
  /\ last_detected_song = 0 /\ result = NoMatch
  /\ window = SilentClip
  /\ nWindows = 0 /\ merged_detections = <<>> /\ exampleIdx = 0

\* librosa.load and get_duration of the whole file, then the loop's initial state.
LoadFile ==
  /\ pc = "call"
  /\ \E d \in TotalDurations : total_duration' = d
  /\ pc' = "loop"
  /\ UNCHANGED <<segment_duration, min_confidence, overlap, current_pos,
                 detected_songs, last_detected_song, result, window, nWindows,
                 merged_detections, exampleIdx>>

\* librosa.load of the whole file raises: the exception leaves the function.
LoadFails ==
  /\ pc = "call"
  /\ pc' = "raised"
  /\ UNCHANGED <<segment_duration, min_confidence, overlap, total_duration,
                 current_pos, detected_songs, last_detected_song, result, window,
                 nWindows, merged_detections, exampleIdx>>

\* The position advanced by the whole segment, the overlap forgotten.
NextPositionIgnoresOverlap(pos, seg, ov) == pos + seg

\* current_pos += segment_duration - overlap
NextPosition(pos, seg, ov) == pos + (seg - ov)

\* One iteration of the while loop.
AnalyseWindow ==
  /\ pc = "loop"
  /\ current_pos < total_duration
  /\ nWindows < MaxWindows
  /\ \E c \in ScanClips, db \in DbStates :
     \E scored \in (IF fingerprint_song(c).value # <<>> /\ db = "ok"
                    THEN ScoredResults ELSE {NoMatch}) :
       LET r == recognize_from_supabase(c, db, scored)
           s == ScanStep(detected_songs, last_detected_song, r, current_pos,
                         segment_duration, min_confidence)
       IN /\ result' = r
          /\ window' = c
          /\ nWindows' = nWindows + 1
          /\ exampleIdx' = IF /\ exampleIdx = nWindows
                              /\ nWindows < Len(Example)
                              /\ r = Example[nWindows + 1]
                           THEN exampleIdx + 1 ELSE -1
          /\ IF r.kind = "raise"
             THEN /\ pc' = "raised"
                  /\ UNCHANGED <<current_pos, detected_songs, last_detected_song>>
             ELSE /\ pc' = "loop"
                  /\ detected_songs' = s.detected_songs
                  /\ last_detected_song' = s.last_detected_song
                  /\ current_pos' = NextPosition(current_pos, segment_duration, overlap)
  /\ UNCHANGED <<segment_duration, min_confidence, overlap, total_duration,
                 merged_detections>>

\* The loop ends; the merge pass; return merged_detections.
Return ==
  /\ pc = "loop"
  /\ ~(current_pos < total_duration)
  /\ LET m == MergeDetections(detected_songs)
     IN /\ merged_detections' = m.merged_detections
        /\ detected_songs' = m.detected_songs
  /\ pc' = "done"
  /\ UNCHANGED <<segment_duration, min_confidence, overlap, total_duration,
                 current_pos, last_detected_song, result, window, nWindows,
                 exampleIdx>>

MatchParked ==
  /\ mpc = "off" /\ query_fingerprints = <<>> /\ index = {} /\ chunk_start = 1
  /\ db_matches = <<>> /\ match_result = NoMatch /\ lookup_failed = FALSE

ApiParked ==
  /\ apc = "off" /\ mode = "multiple" /\ response = [status |-> 0, detail |-> "", results |-> <<>>]

Init == ScanInit /\ FpParked /\ MatchParked /\ ApiParked

Next ==
  \/ LoadFile /\ UNCHANGED <<fpVars, matchVars, apiVars>>
  \/ LoadFails /\ UNCHANGED <<fpVars, matchVars, apiVars>>
  \/ AnalyseWindow /\ UNCHANGED <<fpVars, matchVars, apiVars>>
  \/ Return /\ UNCHANGED <<fpVars, matchVars, apiVars>>

Spec == Init /\ [][Next]_vars

\* The scan is one sequential call: while a step is possible, one is taken.
SpecFair == Init /\ [][Next]_vars /\ WF_vars(Next)

-----------------------------------------------------------------------------
(* fingerprint_song on bounded landmark lists *)

PeakTimes == {0, 100, 900, 1000}
PeakFreqs == {0, 1000, 1200}
Peaks == {Peak(t, f) : t \in PeakTimes, f \in PeakFreqs}

SeqsUpTo(S, n) == UNION {[1..k -> S] : k \in 0..n}

FpInit ==
  /\ fpc = "call"
  /\ clip \in {UndecodableClip}
        \cup {[decodable |-> TRUE, peaks |-> ps] : ps \in SeqsUpTo(Peaks, MaxPeaks)}
  /\ pairs = <<>> /\ fingerprints = <<>>

FingerprintSong ==
  /\ fpc = "call"
  /\ LET out == fingerprint_song(clip)
     IN /\ fingerprints' = out.value
        /\ pairs' = out.pairs
  /\ fpc' = "done"
  /\ UNCHANGED clip

InitFp == FpInit /\ ScanParked /\ MatchParked /\ ApiParked

NextFp == FingerprintSong /\ UNCHANGED <<scanVars, matchVars, apiVars>>

SpecFp == InitFp /\ [][NextFp]_vars

-----------------------------------------------------------------------------
(* recognize_from_supabase on bounded queries and index contents *)

\* Two hash values; hash 1 occurs at two anchor times 4 ms apart.
QueryHashValues == {1, 2}
QueryFingerprints == {[h |-> 1, t |-> 0], [h |-> 1, t |-> 4], [h |-> 2, t |-> 0]}

IndexRows ==
  {Row(h, st[1], st[2]) :
     h \in QueryHashValues, st \in {<<"SongA", 0>>, <<"SongA", 1000>>, <<"SongB", 0>>}}

MatchInit ==
  /\ mpc = "call"
  /\ query_fingerprints \in SeqsUpTo(QueryFingerprints, MaxQuery)
  /\ index \in {rows \in SUBSET IndexRows : Cardinality(rows) <= MaxRows}
  /\ chunk_start = 1 /\ db_matches = <<>> /\ match_result = NoMatch
  /\ lookup_failed = FALSE

\* No fingerprints: return None before the database is touched.
EmptyQuery ==
  /\ mpc = "call" /\ query_fingerprints = <<>>
  /\ match_result' = OnEmptyQuery
  /\ mpc' = "returned"
  /\ UNCHANGED <<query_fingerprints, index, chunk_start, db_matches, lookup_failed>>

\* cursor = conn.cursor(); db_matches = []
OpenCursor ==
  /\ mpc = "call" /\ query_fingerprints # <<>>
  /\ mpc' = "fetch"
  /\ chunk_start' = 1
  /\ db_matches' = <<>>
  /\ UNCHANGED <<query_fingerprints, index, match_result, lookup_failed>>

\* conn.cursor() raises.
CursorFails ==
  /\ mpc = "call" /\ query_fingerprints # <<>>
  /\ match_result' = OnCursorError
  /\ lookup_failed' = TRUE
  /\ mpc' = "raised"
  /\ UNCHANGED <<query_fingerprints, index, chunk_start, db_matches>>

\* One iteration of the chunk loop: execute, fetchall, extend.
ExecuteChunk ==
  /\ mpc = "fetch" /\ chunk_start <= Len(query_fingerprints)
  /\ \E rows \in Orderings(Select(index, Chunk(QueryHashes(query_fingerprints), chunk_start))) :
       db_matches' = db_matches \o rows
  /\ chunk_start' = chunk_start + CHUNK_SIZE
  /\ UNCHANGED <<mpc, query_fingerprints, index, match_result, lookup_failed>>

\* cursor.execute of a chunk raises psycopg2.Error.
ExecuteFails ==
  /\ mpc = "fetch" /\ chunk_start <= Len(query_fingerprints)
  /\ match_result' = OnDatabaseError(ScoreMatches(db_matches, query_fingerprints))
  /\ lookup_failed' = TRUE
  /\ mpc' = "returned"
  /\ UNCHANGED <<query_fingerprints, index, chunk_start, db_matches>>

\* cursor.execute of a chunk raises and conn.rollback() raises after it.
ExecuteFailsRollbackFails ==
  /\ mpc = "fetch" /\ chunk_start <= Len(query_fingerprints)
  /\ match_result' = OnRollbackError
  /\ lookup_failed' = TRUE
  /\ mpc' = "raised"
  /\ UNCHANGED <<query_fingerprints, index, chunk_start, db_matches>>

\* After the last chunk: vote and return.
ScoreAndReturn ==
  /\ mpc = "fetch" /\ chunk_start > Len(query_fingerprints)
  /\ match_result' = ScoreMatches(db_matches, query_fingerprints)
  /\ mpc' = "returned"
  /\ UNCHANGED <<query_fingerprints, index, chunk_start, db_matches, lookup_failed>>

InitMatch == MatchInit /\ ScanParked /\ FpParked /\ ApiParked

NextMatch ==
  \/ EmptyQuery /\ UNCHANGED <<scanVars, fpVars, apiVars>>
  \/ OpenCursor /\ UNCHANGED <<scanVars, fpVars, apiVars>>
  \/ CursorFails /\ UNCHANGED <<scanVars, fpVars, apiVars>>
  \/ ExecuteChunk /\ UNCHANGED <<scanVars, fpVars, apiVars>>
  \/ ExecuteFails /\ UNCHANGED <<scanVars, fpVars, apiVars>>
  \/ ExecuteFailsRollbackFails /\ UNCHANGED <<scanVars, fpVars, apiVars>>
  \/ ScoreAndReturn /\ UNCHANGED <<scanVars, fpVars, apiVars>>

SpecMatch == InitMatch /\ [][NextMatch]_vars

-----------------------------------------------------------------------------
(* The /recognize endpoint of src/main.py *)

\* format_time_position: floor minutes and the whole seconds left, of a time
\* in milliseconds ("M:SS" as the pair of its two numbers).
format_time_position(ms) ==
  [minutes |-> ms \div 60000, seconds |-> (ms % 60000) \div 1000]

\* recognize_single_song_supabase: a dict for any result, None for none.
recognize_single_song_supabase(r) ==
  IF r.kind = "match"
  THEN <<[song |-> r.song, confidence |-> r.score, offset |-> r.offset,
          position |-> <<format_time_position(r.offset)>>]>>
  ELSE <<>>

\* The formatting loop of lines 175-195 over the results of either mode.
FormatSingle(results) ==
  [k \in 1..Len(results) |->
     [song |-> results[k].song, position |-> results[k].position,
      confidence |-> results[k].confidence]]

FormatMultiple(results) ==
  [k \in 1..Len(results) |->
     [song |-> results[k].song,
      position |-> <<format_time_position(results[k].start_time),
                     format_time_position(results[k].end_time)>>,
      confidence |-> results[k].confidence]]

Modes == {"single", "multiple", "both"}

HttpError(code, detail) == [status |-> code, detail |-> detail, results |-> <<>>]

ApiInit ==
  /\ ScanInit
  /\ apc = "request"
  /\ mode \in Modes
  /\ response = [status |-> 0, detail |-> "", results |-> <<>>]

\* No file name (400), a file over 100 MB (413), or connect_to_db returned
\* None (500): the request ends before any recognition.
RejectRequest ==
  /\ apc = "request"
  /\ response' \in {HttpError(400, "No selected file"),
                    HttpError(413, "File too large"),
                    HttpError(500, "Database connection failed")}
  /\ apc' = "responded"
  /\ UNCHANGED <<mode, scanVars>>

\* mode == "single": one call of recognize_single_song_supabase, then the
\* formatting; an exception becomes a 500.
RecognizeSingle ==
  /\ apc = "request" /\ mode = "single"
  /\ \E c \in ScanClips, db \in DbStates :
     \E scored \in (IF fingerprint_song(c).value # <<>> /\ db = "ok"
                    THEN ScoredResults ELSE {NoMatch}) :
       LET r == recognize_from_supabase(c, db, scored)
       IN /\ result' = r
          /\ window' = c
          /\ response' = IF r.kind = "raise" THEN HttpError(500, "exception")
                         ELSE [status |-> 200, detail |-> "",
                               results |-> FormatSingle(recognize_single_song_supabase(r))]
  /\ apc' = "responded"
  /\ UNCHANGED <<mode, pc, segment_duration, min_confidence, overlap,
                 total_duration, current_pos, detected_songs, last_detected_song,
                 nWindows, merged_detections, exampleIdx>>

\* mode == "multiple": the call of recognize_multiple_songs_supabase.
RecognizeMultiple ==
  /\ apc = "request" /\ mode = "multiple"
  /\ apc' = "scanning"
  /\ UNCHANGED <<mode, response, scanVars>>

\* The steps of the scan the endpoint is waiting for.
ScanRuns ==
  /\ apc = "scanning"
  /\ LoadFile \/ LoadFails \/ AnalyseWindow \/ Return
  /\ UNCHANGED apiVars

\* The scan returned: format merged_detections.
RespondMultiple ==
  /\ apc = "scanning" /\ pc = "done"
  /\ response' = [status |-> 200, detail |-> "", results |-> FormatMultiple(merged_detections)]
  /\ apc' = "responded"
  /\ UNCHANGED <<mode, scanVars>>

\* The scan raised: `except Exception` answers 500.
RespondScanError ==
  /\ apc = "scanning" /\ pc = "raised"
  /\ response' = HttpError(500, "exception")
  /\ apc' = "responded"
  /\ UNCHANGED <<mode, scanVars>>

\* Any other mode: 400.
RejectMode ==
  /\ apc = "request" /\ mode \notin {"single", "multiple"}
  /\ response' = HttpError(400, "Invalid mode")
  /\ apc' = "responded"
  /\ UNCHANGED <<mode, scanVars>>

InitApi == ApiInit /\ FpParked /\ MatchParked

NextApi ==
  \/ RejectRequest /\ UNCHANGED <<fpVars, matchVars>>
  \/ RecognizeSingle /\ UNCHANGED <<fpVars, matchVars>>
  \/ RecognizeMultiple /\ UNCHANGED <<fpVars, matchVars>>
  \/ ScanRuns /\ UNCHANGED <<fpVars, matchVars>>
  \/ RespondMultiple /\ UNCHANGED <<fpVars, matchVars>>
  \/ RespondScanError /\ UNCHANGED <<fpVars, matchVars>>
  \/ RejectMode /\ UNCHANGED <<fpVars, matchVars>>

SpecApi == InitApi /\ [][NextApi]_vars

-----------------------------------------------------------------------------
(* Properties of the scan (Spec) *)

\* A step of the while loop that did not raise.
WindowStep == nWindows' = nWindows + 1 /\ pc' = "loop"

C1_Extends ==
  ( /\ WindowStep
    /\ result'.kind = "match" /\ result'.score >= min_confidence
    /\ last_detected_song # 0
    /\ detected_songs[last_detected_song].song = result'.song )
  => /\ Len(detected_songs') = Len(detected_songs)
     /\ last_detected_song' = last_detected_song
     /\ \A k \in 1..Len(detected_songs) :
          IF k = last_detected_song
          THEN /\ detected_songs'[k].song = detected_songs[k].song
               /\ detected_songs'[k].start_time = detected_songs[k].start_time
               /\ detected_songs'[k].end_time = current_pos + segment_duration
               /\ detected_songs'[k].confidence =
                    Max(detected_songs[k].confidence, result'.score)
          ELSE detected_songs'[k] = detected_songs[k]

ExampleRun ==
  /\ pc = "done" /\ exampleIdx = Len(Example) /\ nWindows = Len(Example)
  /\ segment_duration = 30000 /\ overlap = 5000 /\ min_confidence = 5

ExampleIntervals ==
  <<SongInfo("SongA", 0, 55000, 12), SongInfo("SongB", 50000, 105000, 11)>>

\* C1: a qualifying window that names the song of the open interval creates
\* no interval; it sets the open interval's end_time to the window position
\* plus segment_duration and raises its confidence to the maximum of the old
\* confidence and the vote count. The window results (SongA,10), (SongA,12),
\* (SongB,9), (SongB,11) with offset 0, threshold 5, segment_duration 30 s and
\* overlap 5 s give exactly SongA [0,55) with confidence 12 and SongB [50,105)
\* with confidence 11.
C1_SameSongExtends ==
  /\ [][C1_Extends]_vars
  /\ [](ExampleRun => merged_detections = ExampleIntervals)

C1_Witness == ExampleRun /\ merged_detections = ExampleIntervals

\* C2: a window with no match, or with a vote count below min_confidence,
\* leaves the open interval and the detected list as they are; only the scan
\* position advances.
C2_WeakWindowIsFrame ==
  [][ ( /\ WindowStep
        /\ \/ result'.kind = "none"
           \/ result'.kind = "match" /\ result'.score < min_confidence )
      => /\ detected_songs' = detected_songs
         /\ last_detected_song' = last_detected_song
         /\ current_pos' = current_pos + (segment_duration - overlap) ]_vars

\* A weak match arrived while an interval was open, and the scan goes on.
C2_Witness ==
  /\ pc = "loop" /\ nWindows >= 2
  /\ result.kind = "match" /\ result.score < min_confidence
  /\ last_detected_song # 0
  /\ detected_songs[last_detected_song].song = result.song

\* C3: the returned list is ordered by non-decreasing start_time.
C3_OrderedByStartTime ==
  pc = "done" =>
    \A k \in 1..(Len(merged_detections) - 1) :
      merged_detections[k].start_time <= merged_detections[k + 1].start_time

InvalidConfiguration == overlap >= segment_duration \/ segment_duration <= 0

\* C4: with an invalid configuration no window is ever analysed.
C4_InvalidConfigurationRejected == InvalidConfiguration => nWindows = 0

\* C10: a window whose audio cannot be decoded is a no-match window: no
\* exception reaches the loop, the open interval and the detected list are
\* unchanged, and the scan goes on to the next position.
C10_UndecodableWindowIsNoMatch ==
  [][ (nWindows' = nWindows + 1 /\ ~window'.decodable)
      => /\ pc' = "loop"
         /\ result' = NoMatch
         /\ detected_songs' = detected_songs
         /\ last_detected_song' = last_detected_song
         /\ current_pos' = current_pos + (segment_duration - overlap) ]_vars

\* An undecodable window was passed with an interval open, and the scan
\* finished with that interval.
C10_Witness ==
  /\ pc = "done" /\ ~window.decodable /\ nWindows >= 2
  /\ merged_detections # <<>>

\* The number of k >= 0 with k * step < total, for a positive step.
ExpectedWindows(total, step) ==
  IF total <= 0 THEN 0 ELSE (total + step - 1) \div step

Advancing == overlap < segment_duration
LoopEnded == pc \in {"done", "raised"}

\* C12 as stated: with overlap < segment_duration the loop ends having
\* analysed every window k * (segment_duration - overlap) below the total
\* duration; with overlap >= segment_duration and a positive total duration
\* the loop never ends.
C12_ScanVisitsEveryWindow ==
  /\ (Advancing /\ LoopEnded) =>
       nWindows = ExpectedWindows(total_duration, segment_duration - overlap)
  /\ (~Advancing /\ total_duration > 0) => ~LoopEnded

\* C12, amended: with overlap < segment_duration the loop ends; the k-th
\* window it analyses starts at k * (segment_duration - overlap) and lies
\* below the total duration; when the loop ends by its condition it has
\* analysed every such window, and when an exception of a window's
\* recognition ends it, only the windows before. With overlap >=
\* segment_duration and a positive total duration the position never
\* increases and the loop never ends by its condition.
C12_ScanVisitsWindowsUnlessRaised ==
  /\ [](pc = "loop" => current_pos = nWindows * (segment_duration - overlap))
  /\ [][nWindows' = nWindows + 1 => current_pos < total_duration]_vars
  /\ []((Advancing /\ pc = "done") =>
          nWindows = ExpectedWindows(total_duration, segment_duration - overlap))
  /\ []((Advancing /\ pc = "raised") =>
          nWindows <= ExpectedWindows(total_duration, segment_duration - overlap))
  /\ []((~Advancing /\ total_duration > 0) => pc # "done")
  /\ [][~Advancing => current_pos' <= current_pos]_vars
  /\ (pc = "loop" /\ Advancing) ~> LoopEnded

\* A scan of 100 s in steps of 25 s returned after its four windows.
C12_Witness ==
  /\ pc = "done" /\ Advancing /\ total_duration = 100000
  /\ nWindows = 4 /\ current_pos = 100000

\* C13: the list the loop builds never holds two adjacent intervals of the
\* same song, so the merge pass returns that list as it is: the same
\* intervals in the same order with the same start_time, end_time and
\* confidence.
C13_MergePassIsNoOp ==
  /\ [](pc = "loop" =>
          \A k \in 1..(Len(detected_songs) - 1) :
            detected_songs[k].song # detected_songs[k + 1].song)
  /\ [][(pc = "loop" /\ pc' = "done") =>
          /\ merged_detections' = detected_songs
          /\ detected_songs' = detected_songs]_vars

\* A scan returned three intervals, the first and the third of the same song.
C13_Witness ==
  /\ pc = "done" /\ Len(merged_detections) = 3
  /\ merged_detections[1].song = merged_detections[3].song
  /\ merged_detections[1].end_time > merged_detections[1].start_time + segment_duration

-----------------------------------------------------------------------------
(* Properties of the pairing loop (SpecFp) *)

\* C9: for an anchor and a later landmark inside the anchor's frequency band,
\* a landmark at exactly anchor time + 0.1 s gives a fingerprint and a
\* landmark at exactly anchor time + 0.9 s gives none.
C9_TargetZoneBounds ==
  (fpc = "done" /\ clip.decodable /\ ~NoUsablePeaks(clip.peaks)) =>
    LET sp == SortByTime(clip.peaks)
        accepted == {pairs[k] : k \in 1..Len(pairs)}
    IN \A i \in 1..Len(sp) : \A j \in (i + 1)..Len(sp) :
         ( /\ sp[i].freq - TARGET_ZONE_FREQ_WIDTH <= sp[j].freq
           /\ sp[j].freq <= sp[i].freq + TARGET_ZONE_FREQ_WIDTH )
         => /\ (sp[j].time = sp[i].time + 100) => (<<i, j>> \in accepted)
            /\ (sp[j].time = sp[i].time + 900) => (<<i, j>> \notin accepted)

-----------------------------------------------------------------------------
(* Properties of the matcher (SpecMatch) *)

\* The call went through every chunk and returned from the vote.
ReturnedFromVote == mpc = "returned" /\ ~lookup_failed /\ query_fingerprints # <<>>

\* What a single lookup of all the hashes can return, over the orders in which
\* the database may list the rows.
SingleLookupResults ==
  {ScoreMatches(rows, query_fingerprints) :
     rows \in Orderings(Select(index, QueryHashes(query_fingerprints)))}

\* C5: the winning (song, offset, voteCount) of the chunked lookup is the one
\* of a single lookup of all the hashes.
C5_ChunkingDoesNotAffectScore == ReturnedFromVote => match_result \in SingleLookupResults

\* C6: a failed index lookup is reported to the caller as something other
\* than the no-match value.
C6_FailureDistinctFromNoMatch ==
  (mpc \in {"returned", "raised"} /\ lookup_failed) => match_result # NoMatch

\* C7: when the lookup of a chunk fails, the call returns no (song, score,
\* offset): the rows of the chunks fetched before never give a returned score.
C7_FailedLookupReturnsNoScore ==
  (mpc \in {"returned", "raised"} /\ lookup_failed) => match_result.kind # "match"

\* A later chunk failed after an earlier chunk had fetched rows that score.
C7_Witness ==
  /\ mpc = "returned" /\ lookup_failed
  /\ chunk_start > 1
  /\ ScoreMatches(db_matches, query_fingerprints).kind = "match"
  /\ match_result = NoMatch

\* The (song, offset) group of each fetched row, in the order the rows were
\* processed.
Groups ==
  LET hash_to_time == QueryHashToTime(query_fingerprints)
  IN [k \in 1..Len(db_matches) |-> KeyOf(db_matches[k], hash_to_time)]

\* The number of rows of group key, and the position of its first row.
VotesIn(groups, key) == Cardinality({k \in DOMAIN groups : groups[k] = key})
FirstVoteIn(groups, key) ==
  CHOOSE k \in DOMAIN groups :
    groups[k] = key /\ \A m \in DOMAIN groups : groups[m] = key => k <= m

\* C8: the returned (song, offset) is a group with the highest vote count, its
\* score is that count, and among the groups with the highest count it is the
\* one whose first vote came earliest in the order the rows were processed.
C8_FirstHighestGroupWins ==
  (ReturnedFromVote /\ db_matches # <<>>) =>
    /\ match_result.kind = "match"
    /\ LET groups == Groups
           w == <<match_result.song, match_result.offset>>
       IN /\ \E k \in DOMAIN groups : groups[k] = w
          /\ match_result.score = VotesIn(groups, w)
          /\ \A k \in DOMAIN groups :
               /\ VotesIn(groups, groups[k]) <= match_result.score
               /\ VotesIn(groups, groups[k]) = match_result.score
                    => FirstVoteIn(groups, w) <= k

\* Two groups tie at the highest count, and the later-voted one did not win.
C8_Witness ==
  /\ ReturnedFromVote /\ match_result.kind = "match"
  /\ match_result.score >= 2
  /\ LET groups == Groups
     IN \E k \in DOMAIN groups :
          /\ groups[k] # <<match_result.song, match_result.offset>>
          /\ VotesIn(groups, groups[k]) = match_result.score

-----------------------------------------------------------------------------
(* Properties of the endpoint (SpecApi) *)

\* C11: every result the endpoint returns has a confidence of at least the
\* request's min_confidence, in single mode and in multiple mode.
C11_ResultsMeetMinConfidence ==
  (apc = "responded" /\ response.status = 200) =>
    \A k \in 1..Len(response.results) :
      response.results[k].confidence >= min_confidence

=============================================================================
